---- MODULE Spec2Model ----
(***************************************************************************)
(* Model of the go-tezos RPC client: RPCClient.Do and                      *)
(* RPCClient.handleNormalResponse (src/client.go), the response            *)
(* dispatcher and the error classifier.                                    *)
(*                                                                         *)
(* A response body is a sequence of JSON tokens.  "a" and "b" are two      *)
(* distinct well-formed JSON objects, "[" "]" "," are the array syntax,    *)
(* "x" is a byte sequence that is not JSON, and "!" marks the point where  *)
(* reading from the connection fails.  The logging helpers (dumpRequest,   *)
(* dumpResponse, spewDump) return at once under the default logger level   *)
(* and are not part of the model.                                          *)
(***************************************************************************)
EXTENDS Integers, Sequences, FiniteSets, TLC

VARIABLES
    pc,             \* position of the running Do call
    client,         \* RPCClient: which callbacks are configured
    transport,      \* what c.Client.Do(req) is going to return
    v,              \* the destination passed to Do: "nil", "single", "chan"
    resp,           \* the *http.Response held by Do (NoResp before the call)
    ret,            \* the value of the return statement Do executed
    err,            \* Do's named result
    bodyPos,        \* number of body tokens consumed by reads
    bodyCloses,     \* number of resp.Body.Close() calls
    readAfterClose, \* a read happened on a closed body
    chunkVal,       \* the element decoded and not yet sent
    sink,           \* elements received from the channel v, in order
    sinkClosed,     \* the channel v has been closed
    destVal,        \* what a single-value destination holds
    cancelled,      \* ctx.Done() is closed
    receiverReady,  \* a consumer is blocked receiving from the channel v
    transportCalls, \* number of c.Client.Do(req) calls
    headerCb,       \* RPCHeaderCallback invocations: bodyPos at each call
    statusCb,       \* RPCStatusCallback invocations: [err, closes] at each call
    decFn,          \* the JSON unmarshaller under study ("none" during Do)
    decPc,          \* position of the running unmarshaller
    decData,        \* its data argument
    decDests,       \* unmarshalHeterogeneousJSONArray: the shapes of v...
    decRaw,         \* the raw messages of the array
    decI,           \* index of the raw message the loop is at
    decOut,         \* the value being filled: *e, *b, bhm.BalanceUpdates or the targets of v
    decStatus,      \* bhm.TestChainStatus
    decErr          \* the error the unmarshaller returned

vars == <<pc, client, transport, v, resp, ret, err, bodyPos, bodyCloses,
          readAfterClose, chunkVal, sink, sinkClosed, destVal, cancelled,
          receiverReady, transportCalls, headerCb, statusCb,
          decFn, decPc, decData, decDests, decRaw, decI, decOut, decStatus,
          decErr>>

doVars == <<pc, client, transport, v, resp, ret, err, bodyPos, bodyCloses,
            readAfterClose, chunkVal, sink, sinkClosed, destVal, cancelled,
            receiverReady, transportCalls, headerCb, statusCb>>

decVars ==
    <<decFn, decPc, decData, decDests, decRaw, decI, decOut, decStatus,
      decErr>>

-----------------------------------------------------------------------------
(* Bounds *)

MaxStream == 3      \* longest body made of a plain sequence of tokens
MaxErrs == 2        \* longest protocol-error list in a JSON array body
MaxArr == 2         \* longest array given to a variant decoder
MaxTuple == 3       \* longest array given to the heterogeneous-array decoder
MaxDest == 2        \* most destinations given to the heterogeneous-array decoder

-----------------------------------------------------------------------------
(* JSON tokens and bodies *)

LB == "["
RB == "]"
CM == ","
Objs == {"a", "b"}
JUNK == "x"
IOERR == "!"

SeqsUpTo(S, n) == UNION {[1..k -> S] : k \in 0..n}

RECURSIVE Join(_)
\* The elements of s separated by commas.
Join(s) ==
    IF Len(s) = 0 THEN <<>>
    ELSE IF Len(s) = 1 THEN <<s[1]>>
    ELSE <<s[1], CM>> \o Join(Tail(s))

\* The JSON array text whose elements are s.
JSONList(s) == <<LB>> \o Join(s) \o <<RB>>

StreamBodies == SeqsUpTo(Objs \cup {JUNK, IOERR}, MaxStream)

ListBodies == {JSONList(s) : s \in SeqsUpTo(Objs, MaxErrs)}

BrokenBodies ==
    { <<LB>>, <<LB, "a">>, <<LB, "a", CM, RB>>, <<LB, CM, "a", RB>>,
      <<LB, RB, "a">>, <<LB, "a", RB, JUNK>>, <<LB, "a", "b", RB>>,
      <<LB, JUNK, RB>>, <<RB>>, <<LB, "a", IOERR>>, <<LB, "a", RB, IOERR>>,
      <<"a", LB, "b", RB>>, <<LB, LB, RB, RB>> }

Bodies == StreamBodies \cup ListBodies \cup BrokenBodies

-----------------------------------------------------------------------------
(* encoding/json as used by the client *)

RECURSIVE ScanArray(_, _, _, _)
\* Scans an array whose "[" has been read; i is the next token, acc the
\* elements so far, st what the grammar expects next.
ScanArray(body, i, acc, st) ==
    IF i > Len(body)
    THEN [kind |-> "syntax", val |-> <<>>, next |-> i,
          msg |-> "unexpected end of JSON input"]
    ELSE IF body[i] = IOERR
    THEN [kind |-> "io", val |-> <<>>, next |-> i, msg |-> "read error"]
    ELSE IF body[i] = RB /\ st \in {"first", "sep"}
    THEN [kind |-> "array", val |-> acc, next |-> i + 1, msg |-> ""]
    ELSE IF body[i] \in Objs /\ st \in {"first", "elem"}
    THEN ScanArray(body, i + 1, Append(acc, body[i]), "sep")
    ELSE IF body[i] = CM /\ st = "sep"
    THEN ScanArray(body, i + 1, acc, "elem")
    ELSE IF body[i] = LB /\ st \in {"first", "elem"}
    THEN [kind |-> "type", val |-> <<>>, next |-> i,
          msg |-> "cannot unmarshal array"]
    ELSE [kind |-> "syntax", val |-> <<>>, next |-> i,
          msg |-> "invalid character"]

\* Scans one JSON value starting after pos tokens of body.
ScanValue(body, pos) ==
    IF pos >= Len(body)
    THEN [kind |-> "eof", val |-> <<>>, next |-> pos + 1, msg |-> "EOF"]
    ELSE IF body[pos + 1] = IOERR
    THEN [kind |-> "io", val |-> <<>>, next |-> pos + 1, msg |-> "read error"]
    ELSE IF body[pos + 1] \in Objs
    THEN [kind |-> "object", val |-> <<body[pos + 1]>>, next |-> pos + 2,
          msg |-> ""]
    ELSE IF body[pos + 1] = LB
    THEN ScanArray(body, pos + 2, <<>>, "first")
    ELSE [kind |-> "syntax", val |-> <<>>, next |-> pos + 1,
          msg |-> "invalid character"]

\* dec.Decode into a struct-shaped destination: the next value of the body.
\* n is the number of tokens consumed when the call returns.
DecodeNext(body, pos) ==
    LET s == ScanValue(body, pos) IN
    CASE s.kind = "object" -> [kind |-> "ok", val |-> s.val[1],
                               n |-> s.next - 1, msg |-> ""]
      [] s.kind = "array"  -> [kind |-> "error", val |-> "",
                               n |-> s.next - 1,
                               msg |-> "cannot unmarshal array"]
      [] s.kind = "eof"    -> [kind |-> "eof", val |-> "", n |-> pos,
                               msg |-> "EOF"]
      [] OTHER             -> [kind |-> "error", val |-> "",
                               n |-> s.next - 1, msg |-> s.msg]

\* ioutil.ReadAll(resp.Body): the remaining tokens, or a read error.
ReadAll(body, pos) ==
    IF \E i \in (pos + 1)..Len(body) : body[i] = IOERR
    THEN [ok |-> FALSE, data |-> <<>>,
          n |-> CHOOSE i \in (pos + 1)..Len(body) :
                    /\ body[i] = IOERR
                    /\ \A j \in (pos + 1)..(i - 1) : body[j] # IOERR]
    ELSE [ok |-> TRUE, data |-> SubSeq(body, pos + 1, Len(body)),
          n |-> Len(body)]

\* The protocol-error record a JSON object decodes to.
GenericError(tok) ==
    IF tok = "a" THEN [kind |-> "permanent", id |-> "x.y.z"]
    ELSE [kind |-> "temporary", id |-> "p.q"]

\* json.Unmarshal(body, &errs) with errs of type Errors.
UnmarshalErrors(data) ==
    LET s == ScanValue(data, 0) IN
    CASE s.kind = "eof" ->
            [ok |-> FALSE, errs |-> <<>>,
             msg |-> "unexpected end of JSON input"]
      [] s.kind \in {"syntax", "type", "io"} ->
            [ok |-> FALSE, errs |-> <<>>, msg |-> s.msg]
      [] s.next <= Len(data) ->
            [ok |-> FALSE, errs |-> <<>>,
             msg |-> "invalid character after top-level value"]
      [] s.kind = "object" ->
            [ok |-> FALSE, errs |-> <<>>, msg |-> "cannot unmarshal object"]
      [] OTHER ->
            [ok |-> TRUE, msg |-> "",
             errs |-> [i \in 1..Len(s.val) |-> GenericError(s.val[i])]]

-----------------------------------------------------------------------------
(* Error values *)

NoBody == <<"no body">>

ErrVal(type, statusCode, status, body, msg, errors) ==
    [type |-> type, statusCode |-> statusCode, status |-> status,
     body |-> body, msg |-> msg, errors |-> errors]

\* The nil error.
Nil == ErrVal("nil", 0, "", NoBody, <<>>, <<>>)

\* An error value that is none of the client's own types: the transport's
\* error, a decoder's error, a body read or close error, ctx.Err().
PlainErr(type, msg) == ErrVal(type, 0, "", NoBody, <<msg>>, <<>>)

\* &httpError{status, statusCode, body}
httpError(r, body) ==
    ErrVal("httpError", r.StatusCode, r.Status, body, <<>>, <<>>)

\* &plainError{&httpErr, msg}
plainError(r, body, msg) ==
    ErrVal("plainError", r.StatusCode, r.Status, body, msg, <<>>)

\* &rpcError{httpError: &httpErr, errors: errs}
rpcError(r, body, errs) ==
    ErrVal("rpcError", r.StatusCode, r.Status, body, <<>>, errs)

ctxErr == PlainErr("ctx", "context canceled")

-----------------------------------------------------------------------------
(* Inputs *)

StatusCodes == {101, 200, 201, 204, 302, 404, 500, 503, 600}

\* resp.Status as the transport reports it for a status code.
StatusText(code) ==
    CASE code = 101 -> "101 Switching Protocols"
      [] code = 200 -> "200 OK"
      [] code = 201 -> "201 Created"
      [] code = 204 -> "204 No Content"
      [] code = 302 -> "302 Found"
      [] code = 404 -> "404 Not Found"
      [] code = 500 -> "500 Internal Server Error"
      [] code = 503 -> "503 Service Unavailable"
      [] OTHER      -> "600 "

\* Content-Type header values, as sequences of fragments; <<>> is an absent
\* header.
mediaType == "application/json"

ContentTypes ==
    { <<>>, <<"text/plain">>, <<mediaType>>, <<mediaType, "; charset=utf-8">> }

\* strings.Contains(h, sub) on a header made of fragments.
Contains(h, sub) == \E i \in 1..Len(h) : h[i] = sub

TransportErrors == {"connection refused", "tls: handshake failure"}

Destinations == {"nil", "single", "chan"}

NoResp == [StatusCode |-> 0, Status |-> "", ContentType |-> <<>>,
           Body |-> NoBody]

\* What the transport can answer: an error and no response, or a response.
Transports ==
    { [err |-> e, resp |-> NoResp, closeErr |-> FALSE] :
          e \in TransportErrors }
    \cup
    { [err |-> "", closeErr |-> ce,
       resp |-> [StatusCode |-> c, Status |-> StatusText(c),
                 ContentType |-> ct, Body |-> b]] :
          c \in StatusCodes, ct \in ContentTypes, b \in Bodies,
          ce \in BOOLEAN }

\* An error value of the JSON unmarshallers.  index and kind are the element
\* index and the discriminator the error value carries (NoIndex and "" when
\* it carries none).
NoIndex == -1

DecErrVal(type, msg, index, kind) ==
    [type |-> type, msg |-> msg, index |-> index, kind |-> kind]

DecNil == DecErrVal("nil", "", NoIndex, "")

\* An error returned by encoding/json.
JSONErr(msg) == DecErrVal("json", msg, NoIndex, "")

\* A TestChainStatus field that was never assigned.
NoStatus == [goType |-> "nil", Kind |-> ""]

NoData == [json |-> "none", status |-> "", fields |-> "fit", elems |-> <<>>]

\* No unmarshaller is running.
DecIdle ==
    /\ decFn = "none"
    /\ decPc = "idle"
    /\ decData = NoData
    /\ decDests = <<>>
    /\ decRaw = <<>>
    /\ decI = 0
    /\ decOut = <<>>
    /\ decStatus = NoStatus
    /\ decErr = DecNil

Init ==
    /\ pc = "call"
    /\ client \in [RPCHeaderCallback : BOOLEAN, RPCStatusCallback : BOOLEAN]
    /\ transport \in Transports
    /\ v \in Destinations
    /\ resp = NoResp
    /\ ret = Nil
    /\ err = Nil
    /\ bodyPos = 0
    /\ bodyCloses = 0
    /\ readAfterClose = FALSE
    /\ chunkVal = ""
    /\ sink = <<>>
    /\ sinkClosed = FALSE
    /\ destVal = ""
    /\ cancelled = FALSE
    /\ receiverReady = FALSE
    /\ transportCalls = 0
    /\ headerCb = <<>>
    /\ statusCb = <<>>
    /\ DecIdle

-----------------------------------------------------------------------------
(* RPCClient.Do *)

statusClass(r) == r.StatusCode \div 100

\* Classify keeping only the first record of the list.
Classify_FirstErrorOnly(r, body) ==
    IF statusClass(r) # 5 \/ ~Contains(r.ContentType, mediaType)
    THEN httpError(r, body)
    ELSE LET u == UnmarshalErrors(body) IN
         IF ~u.ok
         THEN plainError(r, body, <<"tezos: error decoding RPC error: ", u.msg>>)
         ELSE IF Len(u.errs) = 0
         THEN plainError(r, body, <<"tezos: empty error response">>)
         ELSE rpcError(r, body, <<u.errs[1]>>)

\* Classify without the test for an empty list.
Classify_NoEmptyCheck(r, body) ==
    IF statusClass(r) # 5 \/ ~Contains(r.ContentType, mediaType)
    THEN httpError(r, body)
    ELSE LET u == UnmarshalErrors(body) IN
         IF ~u.ok
         THEN plainError(r, body, <<"tezos: error decoding RPC error: ", u.msg>>)
         ELSE rpcError(r, body, u.errs)

\* Classify reporting a fixed message when the list does not decode.
Classify_FixedDecodeMsg(r, body) ==
    IF statusClass(r) # 5 \/ ~Contains(r.ContentType, mediaType)
    THEN httpError(r, body)
    ELSE LET u == UnmarshalErrors(body) IN
         IF ~u.ok
         THEN plainError(r, body, <<"tezos: error decoding RPC error">>)
         ELSE IF Len(u.errs) = 0
         THEN plainError(r, body, <<"tezos: empty error response">>)
         ELSE rpcError(r, body, u.errs)

\* Classify interpreting the body of every non-2xx JSON response.
Classify_AnyStatusClass(r, body) ==
    IF ~Contains(r.ContentType, mediaType)
    THEN httpError(r, body)
    ELSE LET u == UnmarshalErrors(body) IN
         IF ~u.ok
         THEN plainError(r, body, <<"tezos: error decoding RPC error: ", u.msg>>)
         ELSE IF Len(u.errs) = 0
         THEN plainError(r, body, <<"tezos: empty error response">>)
         ELSE rpcError(r, body, u.errs)

\* Classify interpreting every 5xx body, whatever the content type.
Classify_AnyContentType(r, body) ==
    IF statusClass(r) # 5
    THEN httpError(r, body)
    ELSE LET u == UnmarshalErrors(body) IN
         IF ~u.ok
         THEN plainError(r, body, <<"tezos: error decoding RPC error: ", u.msg>>)
         ELSE IF Len(u.errs) = 0
         THEN plainError(r, body, <<"tezos: empty error response">>)
         ELSE rpcError(r, body, u.errs)

\* Do, from the ioutil.ReadAll result to the returned error value.
Classify(r, body) ==
    IF statusClass(r) # 5 \/ ~Contains(r.ContentType, mediaType)
    THEN httpError(r, body)
    ELSE LET u == UnmarshalErrors(body) IN
         IF ~u.ok
         THEN plainError(r, body, <<"tezos: error decoding RPC error: ", u.msg>>)
         ELSE IF Len(u.errs) = 0
         THEN plainError(r, body, <<"tezos: empty error response">>)
         ELSE rpcError(r, body, u.errs)

\* The error a failed dec.Decode returns.
DecodeErr(d) ==
    IF d.kind = "eof" THEN PlainErr("decode", "EOF")
    ELSE IF d.msg = "read error" THEN PlainErr("read", d.msg)
    ELSE PlainErr("decode", d.msg)

\* DoTransport wrapping the transport's error in an error of its own.
DoTransport_WrapError ==
    /\ pc = "call"
    /\ transportCalls' = transportCalls + 1
    /\ IF transport.err # ""
       THEN /\ ret' = PlainErr("wrapped", "tezos: request failed")
            /\ err' = PlainErr("wrapped", "tezos: request failed")
            /\ pc' = "done"
            /\ UNCHANGED <<resp, headerCb>>
       ELSE /\ resp' = transport.resp
            /\ headerCb' = IF client.RPCHeaderCallback
                           THEN Append(headerCb, bodyPos)
                           ELSE headerCb
            /\ pc' = "dispatch"
            /\ UNCHANGED <<ret, err>>
    /\ UNCHANGED decVars
    /\ UNCHANGED <<client, transport, v, bodyPos, bodyCloses, readAfterClose,
                   chunkVal, sink, sinkClosed, destVal, cancelled,
                   receiverReady, statusCb>>

\* c.Client.Do(req), and the header callback when there is a response.
DoTransport ==
    /\ pc = "call"
    /\ transportCalls' = transportCalls + 1
    /\ IF transport.err # ""
       THEN /\ ret' = PlainErr("transport", transport.err)
            /\ err' = PlainErr("transport", transport.err)
            /\ pc' = "done"
            /\ UNCHANGED <<resp, headerCb>>
       ELSE /\ resp' = transport.resp
            /\ headerCb' = IF client.RPCHeaderCallback
                           THEN Append(headerCb, bodyPos)
                           ELSE headerCb
            /\ pc' = "dispatch"
            /\ UNCHANGED <<ret, err>>
    /\ UNCHANGED decVars
    /\ UNCHANGED <<client, transport, v, bodyPos, bodyCloses, readAfterClose,
                   chunkVal, sink, sinkClosed, destVal, cancelled,
                   receiverReady, statusCb>>

\* return nil for 204 No Content.
DoNoContent ==
    /\ pc = "dispatch"
    /\ resp.StatusCode = 204
    /\ ret' = Nil
    /\ pc' = "close"
    /\ UNCHANGED decVars
    /\ UNCHANGED <<client, transport, v, resp, err, bodyPos, bodyCloses,
                   readAfterClose, chunkVal, sink, sinkClosed, destVal,
                   cancelled, receiverReady, transportCalls, headerCb,
                   statusCb>>

\* DoNilDestination reading the body to its end before it returns.
DoNilDestination_DrainsBody ==
    /\ pc = "dispatch"
    /\ resp.StatusCode # 204
    /\ statusClass(resp) = 2
    /\ v = "nil"
    /\ ret' = Nil
    /\ bodyPos' = Len(resp.Body)
    /\ pc' = "close"
    /\ UNCHANGED decVars
    /\ UNCHANGED <<client, transport, v, resp, err, bodyCloses,
                   readAfterClose, chunkVal, sink, sinkClosed, destVal,
                   cancelled, receiverReady, transportCalls, headerCb,
                   statusCb>>

\* return nil for a 2xx response and a nil destination.
DoNilDestination ==
    /\ pc = "dispatch"
    /\ resp.StatusCode # 204
    /\ statusClass(resp) = 2
    /\ v = "nil"
    /\ ret' = Nil
    /\ pc' = "close"
    /\ UNCHANGED decVars
    /\ UNCHANGED <<client, transport, v, resp, err, bodyPos, bodyCloses,
                   readAfterClose, chunkVal, sink, sinkClosed, destVal,
                   cancelled, receiverReady, transportCalls, headerCb,
                   statusCb>>

\* handleNormalResponseSingle taking the end of the body for success, as the
\* streaming loop does.
handleNormalResponseSingle_EOFIsNil ==
    /\ pc = "dispatch"
    /\ resp.StatusCode # 204
    /\ statusClass(resp) = 2
    /\ v = "single"
    /\ LET d == DecodeNext(resp.Body, bodyPos) IN
         /\ bodyPos' = d.n
         /\ destVal' = IF d.kind = "ok" THEN d.val ELSE destVal
         /\ ret' = IF d.kind \in {"ok", "eof"} THEN Nil ELSE DecodeErr(d)
    /\ readAfterClose' = (readAfterClose \/ bodyCloses > 0)
    /\ pc' = "close"
    /\ UNCHANGED decVars
    /\ UNCHANGED <<client, transport, v, resp, err, bodyCloses, chunkVal,
                   sink, sinkClosed, cancelled, receiverReady,
                   transportCalls, headerCb, statusCb>>

\* handleNormalResponse, single object: one dec.Decode(&v).
handleNormalResponseSingle ==
    /\ pc = "dispatch"
    /\ resp.StatusCode # 204
    /\ statusClass(resp) = 2
    /\ v = "single"
    /\ LET d == DecodeNext(resp.Body, bodyPos) IN
         /\ bodyPos' = d.n
         /\ destVal' = IF d.kind = "ok" THEN d.val ELSE destVal
         /\ ret' = IF d.kind = "ok" THEN Nil ELSE DecodeErr(d)
    /\ readAfterClose' = (readAfterClose \/ bodyCloses > 0)
    /\ pc' = "close"
    /\ UNCHANGED decVars
    /\ UNCHANGED <<client, transport, v, resp, err, bodyCloses, chunkVal,
                   sink, sinkClosed, cancelled, receiverReady,
                   transportCalls, headerCb, statusCb>>

\* handleNormalResponse, channel: the decoder and the select cases are set up.
handleNormalResponseChan ==
    /\ pc = "dispatch"
    /\ resp.StatusCode # 204
    /\ statusClass(resp) = 2
    /\ v = "chan"
    /\ pc' = "decode"
    /\ UNCHANGED decVars
    /\ UNCHANGED <<client, transport, v, resp, ret, err, bodyPos, bodyCloses,
                   readAfterClose, chunkVal, sink, sinkClosed, destVal,
                   cancelled, receiverReady, transportCalls, headerCb,
                   statusCb>>

\* handleNormalResponseDecode stepping over a value that does not decode.
handleNormalResponseDecode_SkipBadValue ==
    /\ pc = "decode"
    /\ LET d == DecodeNext(resp.Body, bodyPos) IN
         IF d.kind = "ok"
         THEN /\ bodyPos' = d.n
              /\ chunkVal' = d.val
              /\ pc' = "select"
              /\ ret' = ret
         ELSE IF d.kind = "eof"
         THEN /\ bodyPos' = d.n
              /\ ret' = Nil
              /\ pc' = "close"
              /\ chunkVal' = chunkVal
         ELSE /\ bodyPos' = bodyPos + 1
              /\ pc' = "decode"
              /\ UNCHANGED <<ret, chunkVal>>
    /\ readAfterClose' = (readAfterClose \/ bodyCloses > 0)
    /\ UNCHANGED decVars
    /\ UNCHANGED <<client, transport, v, resp, err, bodyCloses, sink,
                   sinkClosed, destVal, cancelled, receiverReady,
                   transportCalls, headerCb, statusCb>>

\* handleNormalResponseDecode closing the channel at the end of the body.
handleNormalResponseDecode_ClosesSink ==
    /\ pc = "decode"
    /\ LET d == DecodeNext(resp.Body, bodyPos) IN
         /\ bodyPos' = d.n
         /\ IF d.kind = "ok"
            THEN /\ chunkVal' = d.val
                 /\ pc' = "select"
                 /\ ret' = ret
                 /\ sinkClosed' = sinkClosed
            ELSE /\ ret' = IF d.kind = "eof" THEN Nil ELSE DecodeErr(d)
                 /\ pc' = "close"
                 /\ chunkVal' = chunkVal
                 /\ sinkClosed' = TRUE
    /\ readAfterClose' = (readAfterClose \/ bodyCloses > 0)
    /\ UNCHANGED decVars
    /\ UNCHANGED <<client, transport, v, resp, err, bodyCloses, sink,
                   destVal, cancelled, receiverReady,
                   transportCalls, headerCb, statusCb>>

\* The dec.Decode at the top of the streaming loop.
handleNormalResponseDecode ==
    /\ pc = "decode"
    /\ LET d == DecodeNext(resp.Body, bodyPos) IN
         /\ bodyPos' = d.n
         /\ IF d.kind = "ok"
            THEN /\ chunkVal' = d.val
                 /\ pc' = "select"
                 /\ ret' = ret
            ELSE /\ ret' = IF d.kind = "eof" THEN Nil ELSE DecodeErr(d)
                 /\ pc' = "close"
                 /\ chunkVal' = chunkVal
    /\ readAfterClose' = (readAfterClose \/ bodyCloses > 0)
    /\ UNCHANGED decVars
    /\ UNCHANGED <<client, transport, v, resp, err, bodyCloses, sink,
                   sinkClosed, destVal, cancelled, receiverReady,
                   transportCalls, headerCb, statusCb>>

\* reflect.Select finds no case ready: the goroutine parks on both channels.
handleNormalResponseBlock ==
    /\ pc = "select"
    /\ ~receiverReady
    /\ ~cancelled
    /\ pc' = "blocked"
    /\ UNCHANGED decVars
    /\ UNCHANGED <<client, transport, v, resp, ret, err, bodyPos, bodyCloses,
                   readAfterClose, chunkVal, sink, sinkClosed, destVal,
                   cancelled, receiverReady, transportCalls, headerCb,
                   statusCb>>

\* handleNormalResponseSend delivering the element ahead of the ones already delivered.
handleNormalResponseSend_Prepend ==
    /\ pc = "select"
    /\ receiverReady
    /\ sink' = <<chunkVal>> \o sink
    /\ receiverReady' = FALSE
    /\ chunkVal' = ""
    /\ pc' = "decode"
    /\ UNCHANGED decVars
    /\ UNCHANGED <<client, transport, v, resp, ret, err, bodyPos, bodyCloses,
                   readAfterClose, sinkClosed, destVal, cancelled,
                   transportCalls, headerCb, statusCb>>

\* reflect.Select chose case 0: the element is sent to a ready receiver.
handleNormalResponseSend ==
    /\ pc = "select"
    /\ receiverReady
    /\ sink' = Append(sink, chunkVal)
    /\ receiverReady' = FALSE
    /\ chunkVal' = ""
    /\ pc' = "decode"
    /\ UNCHANGED decVars
    /\ UNCHANGED <<client, transport, v, resp, ret, err, bodyPos, bodyCloses,
                   readAfterClose, sinkClosed, destVal, cancelled,
                   transportCalls, headerCb, statusCb>>

\* handleNormalResponseDone sending the pending element before it returns.
handleNormalResponseDone_FlushPending ==
    /\ \/ pc = "select" /\ cancelled
       \/ pc = "woken"
    /\ ret' = ctxErr
    /\ sink' = Append(sink, chunkVal)
    /\ pc' = "close"
    /\ UNCHANGED decVars
    /\ UNCHANGED <<client, transport, v, resp, err, bodyPos, bodyCloses,
                   readAfterClose, chunkVal, sinkClosed, destVal,
                   cancelled, receiverReady, transportCalls, headerCb,
                   statusCb>>

\* reflect.Select chose case 1, at once because ctx.Done() was closed or
\* after the close woke the parked goroutine; return ctx.Err().
handleNormalResponseDone ==
    /\ \/ pc = "select" /\ cancelled
       \/ pc = "woken"
    /\ ret' = ctxErr
    /\ pc' = "close"
    /\ UNCHANGED decVars
    /\ UNCHANGED <<client, transport, v, resp, err, bodyPos, bodyCloses,
                   readAfterClose, chunkVal, sink, sinkClosed, destVal,
                   cancelled, receiverReady, transportCalls, headerCb,
                   statusCb>>

\* A non-2xx response: ioutil.ReadAll and the classification of the error.
DoErrorResponse ==
    /\ pc = "dispatch"
    /\ resp.StatusCode # 204
    /\ statusClass(resp) # 2
    /\ LET r == ReadAll(resp.Body, bodyPos) IN
         /\ bodyPos' = r.n
         /\ ret' = IF r.ok THEN Classify(resp, r.data)
                   ELSE PlainErr("read", "read error")
    /\ readAfterClose' = (readAfterClose \/ bodyCloses > 0)
    /\ pc' = "close"
    /\ UNCHANGED decVars
    /\ UNCHANGED <<client, transport, v, resp, err, bodyCloses, chunkVal,
                   sink, sinkClosed, destVal, cancelled, receiverReady,
                   transportCalls, headerCb, statusCb>>

\* DoClose closing the body only when the return statement returned nil.
DoClose_OnlyOnSuccess ==
    /\ pc = "close"
    /\ bodyCloses' = IF ret = Nil THEN bodyCloses + 1 ELSE bodyCloses
    /\ err' = IF ret = Nil
              THEN (IF transport.closeErr
                    THEN PlainErr("close", "close error") ELSE Nil)
              ELSE ret
    /\ pc' = IF client.RPCStatusCallback THEN "status" ELSE "done"
    /\ UNCHANGED decVars
    /\ UNCHANGED <<client, transport, v, resp, ret, bodyPos, readAfterClose,
                   chunkVal, sink, sinkClosed, destVal, cancelled,
                   receiverReady, transportCalls, headerCb, statusCb>>

\* DoClose making the error of Close the result whenever Close fails.
DoClose_CloseErrorWins ==
    /\ pc = "close"
    /\ bodyCloses' = bodyCloses + 1
    /\ err' = IF transport.closeErr
              THEN PlainErr("close", "close error") ELSE ret
    /\ pc' = IF client.RPCStatusCallback THEN "status" ELSE "done"
    /\ UNCHANGED decVars
    /\ UNCHANGED <<client, transport, v, resp, ret, bodyPos, readAfterClose,
                   chunkVal, sink, sinkClosed, destVal, cancelled,
                   receiverReady, transportCalls, headerCb, statusCb>>

\* The deferred resp.Body.Close(); its error is the result only when the
\* return statement returned nil.
DoClose ==
    /\ pc = "close"
    /\ bodyCloses' = bodyCloses + 1
    /\ err' = IF ret = Nil
              THEN (IF transport.closeErr
                    THEN PlainErr("close", "close error") ELSE Nil)
              ELSE ret
    /\ pc' = IF client.RPCStatusCallback THEN "status" ELSE "done"
    /\ UNCHANGED decVars
    /\ UNCHANGED <<client, transport, v, resp, ret, bodyPos, readAfterClose,
                   chunkVal, sink, sinkClosed, destVal, cancelled,
                   receiverReady, transportCalls, headerCb, statusCb>>

\* DoStatusCallback handing over the value of the return statement, not the
\* named result.
DoStatusCallback_PassesReturnValue ==
    /\ pc = "status"
    /\ statusCb' = Append(statusCb, [status |-> resp.StatusCode, err |-> ret,
                                     closes |-> bodyCloses])
    /\ pc' = "done"
    /\ UNCHANGED decVars
    /\ UNCHANGED <<client, transport, v, resp, ret, err, bodyPos, bodyCloses,
                   readAfterClose, chunkVal, sink, sinkClosed, destVal,
                   cancelled, receiverReady, transportCalls, headerCb>>

\* The deferred RPCStatusCallback(req, resp.StatusCode, duration, err).
DoStatusCallback ==
    /\ pc = "status"
    /\ statusCb' = Append(statusCb, [status |-> resp.StatusCode, err |-> err,
                                     closes |-> bodyCloses])
    /\ pc' = "done"
    /\ UNCHANGED decVars
    /\ UNCHANGED <<client, transport, v, resp, ret, err, bodyPos, bodyCloses,
                   readAfterClose, chunkVal, sink, sinkClosed, destVal,
                   cancelled, receiverReady, transportCalls, headerCb>>

-----------------------------------------------------------------------------
(* The caller's side of a streaming call *)

\* Cancel leaving a goroutine parked in reflect.Select where it is.
Cancel_LeavesBlocked ==
    /\ pc # "done"
    /\ ~cancelled
    /\ cancelled' = TRUE
    /\ pc' = pc
    /\ UNCHANGED decVars
    /\ UNCHANGED <<client, transport, v, resp, ret, err, bodyPos,
                   bodyCloses, readAfterClose, chunkVal, sink, sinkClosed,
                   destVal, receiverReady, transportCalls, headerCb,
                   statusCb>>

\* The request's context is cancelled.  Closing ctx.Done() wakes a goroutine
\* parked in reflect.Select with case 1 chosen.
Cancel ==
    /\ pc # "done"
    /\ ~cancelled
    /\ cancelled' = TRUE
    /\ pc' = IF pc = "blocked" THEN "woken" ELSE pc
    /\ UNCHANGED decVars
    /\ UNCHANGED <<client, transport, v, resp, ret, err, bodyPos,
                   bodyCloses, readAfterClose, chunkVal, sink, sinkClosed,
                   destVal, receiverReady, transportCalls, headerCb,
                   statusCb>>

\* Receive leaving a goroutine parked in reflect.Select where it is.
Receive_LeavesBlocked ==
    /\ pc # "done"
    /\ v = "chan"
    /\ ~receiverReady
    /\ receiverReady' = TRUE
    /\ UNCHANGED decVars
    /\ UNCHANGED <<pc, client, transport, v, resp, ret, err, bodyPos,
                   bodyCloses, readAfterClose, chunkVal, sink, sinkClosed,
                   destVal, cancelled, transportCalls, headerCb, statusCb>>

\* A consumer starts receiving from the channel.  When the dispatcher is
\* parked in reflect.Select the receive takes the pending element at once
\* and the select returns case 0.
Receive ==
    /\ pc # "done"
    /\ v = "chan"
    /\ ~receiverReady
    /\ IF pc = "blocked"
       THEN /\ sink' = Append(sink, chunkVal)
            /\ chunkVal' = ""
            /\ pc' = "decode"
            /\ UNCHANGED receiverReady
       ELSE /\ receiverReady' = TRUE
            /\ UNCHANGED <<pc, sink, chunkVal>>
    /\ UNCHANGED decVars
    /\ UNCHANGED <<client, transport, v, resp, ret, err, bodyPos,
                   bodyCloses, readAfterClose, sinkClosed,
                   destVal, cancelled, transportCalls, headerCb, statusCb>>

Next ==
    \/ DoTransport
    \/ DoNoContent
    \/ DoNilDestination
    \/ handleNormalResponseSingle
    \/ handleNormalResponseChan
    \/ handleNormalResponseDecode
    \/ handleNormalResponseBlock
    \/ handleNormalResponseSend
    \/ handleNormalResponseDone
    \/ DoErrorResponse
    \/ DoClose
    \/ DoStatusCallback
    \/ Cancel
    \/ Receive

Spec == Init /\ [][Next]_vars

-----------------------------------------------------------------------------
(* JSON values given to the unmarshallers *)

\* An array element is described by what the unmarshallers look at: its JSON
\* type, its discriminator ("kind"), whether its other fields have the shape
\* of the concrete Go type registered for the discriminator, and the form of
\* its "change" field.
NoKind == "<absent>"        \* the object has no discriminator field
NonString == "<number>"     \* the discriminator field is not a JSON string
NewKind == "new_kind"       \* a discriminator no switch knows

Elem(json, kind, fields, change) ==
    [json |-> json, kind |-> kind, fields |-> fields, change |-> change]

NotAnObject == Elem("number", NoKind, "fit", "absent")

OperationKinds ==
    <<"endorsement", "transaction", "ballot", "proposals",
      "seed_nonce_revelation", "double_endorsement_evidence",
      "double_baking_evidence", "activate_account", "reveal", "origination",
      "delegation">>

BalanceKinds == <<"contract", "freezer">>

Range(f) == {f[i] : i \in DOMAIN f}

OperationElems ==
    {Elem("object", k, f, "absent") :
        k \in Range(OperationKinds) \cup {NewKind, NoKind},
        f \in {"fit", "misfit"}}
    \cup {Elem("object", NonString, "fit", "absent"), NotAnObject}

BalanceElems ==
    {Elem("object", k, f, c) :
        k \in Range(BalanceKinds) \cup {NewKind, NoKind},
        f \in {"fit", "misfit"}, c \in {"absent", "quoted", "number"}}
    \cup {Elem("object", NonString, "fit", "absent"), NotAnObject}

\* The data argument: a JSON array, null, or something that is not an array.
ArrayOf(elems) ==
    [json |-> "array", status |-> "", fields |-> "fit", elems |-> elems]

NotArrays ==
    {[json |-> j, status |-> "", fields |-> "fit", elems |-> <<>>] :
        j \in {"null", "object", "malformed"}}

\* One element of every kind of the registry, in the registry's order.
OneOfEach(kinds, change) ==
    ArrayOf([i \in 1..Len(kinds) |-> Elem("object", kinds[i], "fit", change)])

-----------------------------------------------------------------------------
(* OperationElements.UnmarshalJSON and BalanceUpdates.UnmarshalJSON *)

\* A nil interface value in a slice made by make().
NilElem == [goType |-> "nil", Kind |-> ""]

\* json.Unmarshal(data, &raw) with raw []json.RawMessage.
UnmarshalRaw(data) ==
    CASE data.json = "array" -> [ok |-> TRUE, raw |-> data.elems, msg |-> ""]
      [] data.json = "null"  -> [ok |-> TRUE, raw |-> <<>>, msg |-> ""]
      [] data.json = "malformed" ->
            [ok |-> FALSE, raw |-> <<>>, msg |-> "invalid character"]
      [] OTHER -> [ok |-> FALSE, raw |-> <<>>,
                   msg |-> "cannot unmarshal object into []json.RawMessage"]

\* The Kind a decode into a struct with a Kind string field yields.
KindOf(el) == IF el.kind = NoKind THEN "" ELSE el.kind

\* ProbeOperationElem refusing an object that has no kind field.
ProbeOperationElem_KindRequired(el) ==
    IF el.json # "object" \/ el.kind = NonString \/ el.kind = NoKind
    THEN [ok |-> FALSE, Kind |-> ""]
    ELSE [ok |-> TRUE, Kind |-> KindOf(el)]

\* json.Unmarshal(r, &tmp) with tmp GenericOperationElem.
ProbeOperationElem(el) ==
    IF el.json # "object" \/ el.kind = NonString
    THEN [ok |-> FALSE, Kind |-> ""]
    ELSE [ok |-> TRUE, Kind |-> KindOf(el)]

\* json.Unmarshal(r, &tmp) with tmp GenericBalanceUpdate: Kind string and
\* Change int64 `json:"change,string"`.
ProbeBalanceUpdate(el) ==
    IF el.json # "object" \/ el.kind = NonString \/ el.change = "number"
    THEN [ok |-> FALSE, Kind |-> ""]
    ELSE [ok |-> TRUE, Kind |-> KindOf(el)]

\* OperationElemType with two cases of the switch exchanged.
OperationElemType_Swapped(kind) ==
    CASE kind = "endorsement" -> "EndorsementOperationElem"
      [] kind = "transaction" -> "TransactionOperationElem"
      [] kind = "ballot" -> "ProposalOperationElem"
      [] kind = "proposals" -> "BallotOperationElem"
      [] kind = "seed_nonce_revelation" -> "SeedNonceRevelationOperationElem"
      [] kind = "double_endorsement_evidence" ->
            "DoubleEndorsementEvidenceOperationElem"
      [] kind = "double_baking_evidence" -> "DoubleBakingEvidenceOperationElem"
      [] kind = "activate_account" -> "ActivateAccountOperationElem"
      [] kind = "reveal" -> "RevealOperationElem"
      [] kind = "origination" -> "OriginationOperationElem"
      [] kind = "delegation" -> "DelegationOperationElem"
      [] OTHER -> "GenericOperationElem"

\* The switch tmp.Kind of OperationElements.UnmarshalJSON.
OperationElemType(kind) ==
    CASE kind = "endorsement" -> "EndorsementOperationElem"
      [] kind = "transaction" -> "TransactionOperationElem"
      [] kind = "ballot" -> "BallotOperationElem"
      [] kind = "proposals" -> "ProposalOperationElem"
      [] kind = "seed_nonce_revelation" -> "SeedNonceRevelationOperationElem"
      [] kind = "double_endorsement_evidence" ->
            "DoubleEndorsementEvidenceOperationElem"
      [] kind = "double_baking_evidence" -> "DoubleBakingEvidenceOperationElem"
      [] kind = "activate_account" -> "ActivateAccountOperationElem"
      [] kind = "reveal" -> "RevealOperationElem"
      [] kind = "origination" -> "OriginationOperationElem"
      [] kind = "delegation" -> "DelegationOperationElem"
      [] OTHER -> "GenericOperationElem"

\* The switch tmp.Kind of BalanceUpdates.UnmarshalJSON.
BalanceUpdateType(kind) ==
    CASE kind = "contract" -> "ContractBalanceUpdate"
      [] kind = "freezer" -> "FreezerBalanceUpdate"
      [] OTHER -> "GenericBalanceUpdate"

\* FullDecode wrapping the error with the discriminator of the element.
FullDecode_Wrapped(el, goType) ==
    IF el.fields = "misfit"
    THEN [ok |-> FALSE, val |-> [goType |-> goType, Kind |-> KindOf(el)],
          err |-> DecErrVal("json", "cannot unmarshal into Go struct field",
                            NoIndex, KindOf(el))]
    ELSE [ok |-> TRUE, val |-> [goType |-> goType, Kind |-> KindOf(el)],
          err |-> DecNil]

\* json.Unmarshal(r, (*e)[i]) into the concrete type: fails when a field of
\* the element does not have the shape the type declares.
FullDecode(el, goType) ==
    IF el.fields = "misfit"
    THEN [ok |-> FALSE, val |-> [goType |-> goType, Kind |-> KindOf(el)],
          err |-> JSONErr("cannot unmarshal into Go struct field")]
    ELSE [ok |-> TRUE, val |-> [goType |-> goType, Kind |-> KindOf(el)],
          err |-> DecNil]

\* VariantUnmarshalRaw refusing an array without elements.
VariantUnmarshalRaw_EmptyIsError(fn) ==
    /\ decFn = fn
    /\ decPc = "start"
    /\ LET u == UnmarshalRaw(decData) IN
         IF u.ok /\ Len(u.raw) > 0
         THEN /\ decRaw' = u.raw
              /\ decOut' = [i \in 1..Len(u.raw) |-> NilElem]
              /\ decI' = 1
              /\ decPc' = "loop"
              /\ decErr' = decErr
         ELSE /\ decErr' = JSONErr(u.msg)
              /\ decPc' = "done"
              /\ UNCHANGED <<decRaw, decOut, decI>>
    /\ UNCHANGED <<decFn, decData, decDests, decStatus>>
    /\ UNCHANGED doVars

\* The first statements of either UnmarshalJSON: the raw messages and make().
VariantUnmarshalRaw(fn) ==
    /\ decFn = fn
    /\ decPc = "start"
    /\ LET u == UnmarshalRaw(decData) IN
         IF u.ok
         THEN /\ decRaw' = u.raw
              /\ decOut' = [i \in 1..Len(u.raw) |-> NilElem]
              /\ decI' = 1
              /\ decPc' = "loop"
              /\ decErr' = decErr
         ELSE /\ decErr' = JSONErr(u.msg)
              /\ decPc' = "done"
              /\ UNCHANGED <<decRaw, decOut, decI>>
    /\ UNCHANGED <<decFn, decData, decDests, decStatus>>
    /\ UNCHANGED doVars

\* VariantLoop with a default case that returns an error.
VariantLoop_UnknownFails(fn, probe, goType, generic) ==
    /\ decFn = fn
    /\ decPc = "loop"
    /\ IF decI > Len(decRaw)
       THEN /\ decErr' = DecNil
            /\ decPc' = "done"
            /\ UNCHANGED <<decOut, decI>>
       ELSE IF ~probe.ok
       THEN /\ decErr' = JSONErr("cannot unmarshal into Go value")
            /\ decPc' = "done"
            /\ UNCHANGED <<decOut, decI>>
       ELSE IF goType = generic
       THEN /\ decErr' = DecErrVal("fmt", "unknown kind", NoIndex, probe.Kind)
            /\ decPc' = "done"
            /\ UNCHANGED <<decOut, decI>>
       ELSE LET d == FullDecode(decRaw[decI], goType) IN
            /\ decOut' = [decOut EXCEPT ![decI] = d.val]
            /\ IF d.ok
               THEN /\ decI' = decI + 1
                    /\ UNCHANGED <<decErr, decPc>>
               ELSE /\ decErr' = d.err
                    /\ decPc' = "done"
                    /\ decI' = decI
    /\ UNCHANGED <<decFn, decData, decDests, decRaw, decStatus>>
    /\ UNCHANGED doVars

\* One pass of the loop of either UnmarshalJSON, or the return nil after it.
VariantLoop(fn, probe, goType, generic) ==
    /\ decFn = fn
    /\ decPc = "loop"
    /\ IF decI > Len(decRaw)
       THEN /\ decErr' = DecNil
            /\ decPc' = "done"
            /\ UNCHANGED <<decOut, decI>>
       ELSE IF ~probe.ok
       THEN /\ decErr' = JSONErr("cannot unmarshal into Go value")
            /\ decPc' = "done"
            /\ UNCHANGED <<decOut, decI>>
       ELSE IF goType = generic
       THEN /\ decOut' = [decOut EXCEPT ![decI] =
                             [goType |-> generic, Kind |-> probe.Kind]]
            /\ decI' = decI + 1
            /\ UNCHANGED <<decErr, decPc>>
       ELSE LET d == FullDecode(decRaw[decI], goType) IN
            /\ decOut' = [decOut EXCEPT ![decI] = d.val]
            /\ IF d.ok
               THEN /\ decI' = decI + 1
                    /\ UNCHANGED <<decErr, decPc>>
               ELSE /\ decErr' = d.err
                    /\ decPc' = "done"
                    /\ decI' = decI
    /\ UNCHANGED <<decFn, decData, decDests, decRaw, decStatus>>
    /\ UNCHANGED doVars

OperationElementsUnmarshalRaw == VariantUnmarshalRaw("OperationElements")

OperationElementsLoop ==
    LET el == IF decI \in 1..Len(decRaw) THEN decRaw[decI] ELSE NotAnObject
        probe == ProbeOperationElem(el)
    IN VariantLoop("OperationElements", probe, OperationElemType(probe.Kind),
                   "GenericOperationElem")

BalanceUpdatesUnmarshalRaw == VariantUnmarshalRaw("BalanceUpdates")

BalanceUpdatesLoop ==
    LET el == IF decI \in 1..Len(decRaw) THEN decRaw[decI] ELSE NotAnObject
        probe == ProbeBalanceUpdate(el)
    IN VariantLoop("BalanceUpdates", probe, BalanceUpdateType(probe.Kind),
                   "GenericBalanceUpdate")

-----------------------------------------------------------------------------
(* BlockHeaderMetadata.UnmarshalJSON and BalanceUpdatesType.UnmarshalJSON *)

TestChainStatuses == <<"not_running", "forking", "running">>

\* An error made by fmt.Errorf; the message ends with the discriminator.
FmtErr(msg, kind) == DecErrVal("fmt", msg, NoIndex, kind)

\* A block metadata object: the status of its test_chain_status, whether the
\* other fields of test_chain_status fit the registered type, and its
\* balance_updates array.
Metadata(status, fields, elems) ==
    [json |-> "object", status |-> status, fields |-> fields, elems |-> elems]

\* The elements the probes of block.go accept: objects whose kind, when
\* present, is a string.
ProbeBlockElem(el) == el.json = "object" /\ el.kind # NonString

\* The switch bu.Kind of BalanceUpdatesType.UnmarshalJSON; "" is its default.
BlockBalanceUpdateType(kind) ==
    CASE kind = "contract" -> "ContractBalanceUpdate"
      [] kind = "freezer" -> "FreezerBalanceUpdate"
      [] OTHER -> ""

\* json.Unmarshal(aRaw[i], &cbu) and (&fbu): Change is a Go string here.
BlockFullDecode(el) == el.fields = "fit" /\ el.change # "number"

\* The loop of BalanceUpdatesType.UnmarshalJSON from index i on.
RECURSIVE BalanceUpdatesTypeLoop(_, _, _)
BalanceUpdatesTypeLoop(elems, i, out) ==
    IF i > Len(elems)
    THEN [err |-> DecNil, out |-> out]
    ELSE LET kind == KindOf(elems[i])
             goType == BlockBalanceUpdateType(kind)
         IN IF goType = ""
            THEN [err |-> FmtErr("Unknown BalanceUpdates.Kind", kind),
                  out |-> out]
            ELSE IF ~BlockFullDecode(elems[i])
            THEN [err |-> JSONErr("cannot unmarshal into Go struct field"),
                  out |-> out]
            ELSE BalanceUpdatesTypeLoop(elems, i + 1,
                     [out EXCEPT ![i] = [goType |-> goType, Kind |-> kind]])

\* BalanceUpdatesType.UnmarshalJSON on the array elems.
BalanceUpdatesTypeUnmarshalJSON(elems) ==
    IF \E i \in 1..Len(elems) : ~ProbeBlockElem(elems[i])
    THEN [err |-> JSONErr("cannot unmarshal into Go value"), out |-> <<>>]
    ELSE BalanceUpdatesTypeLoop(elems, 1, [i \in 1..Len(elems) |-> NilElem])

\* The switch temp.TestChainStatus.Status; "" is its default.
TestChainStatusType(status) ==
    CASE status = "not_running" -> "NotRunningTestChainStatus"
      [] status = "forking" -> "ForkingTestChainStatus"
      [] status = "running" -> "RunningTestChainStatus"
      [] OTHER -> ""

\* The decode into temp and the switch on the status.
BlockHeaderMetadataProbe ==
    /\ decFn = "BlockHeaderMetadata"
    /\ decPc = "start"
    /\ LET status == IF decData.status = NoKind THEN "" ELSE decData.status
           goType == TestChainStatusType(status)
       IN IF \/ decData.json # "object"
             \/ decData.status = NonString
             \/ \E i \in 1..Len(decData.elems) : ~ProbeBlockElem(decData.elems[i])
          THEN /\ decErr' = JSONErr("cannot unmarshal into Go value")
               /\ decPc' = "done"
               /\ UNCHANGED decStatus
          ELSE IF goType = ""
          THEN /\ decErr' = FmtErr("Unknown TestChainStatus.Status", status)
               /\ decPc' = "done"
               /\ UNCHANGED decStatus
          ELSE /\ decStatus' = [goType |-> goType, Kind |-> ""]
               /\ decPc' = "full"
               /\ UNCHANGED decErr
    /\ UNCHANGED <<decFn, decData, decDests, decRaw, decI, decOut>>
    /\ UNCHANGED doVars

\* json.Unmarshal(data, (*tempBHM)(bhm)): an error of the balance updates'
\* UnmarshalJSON ends the decode at once, a field that does not fit is
\* reported at the end.
BlockHeaderMetadataFull ==
    /\ decFn = "BlockHeaderMetadata"
    /\ decPc = "full"
    /\ LET b == BalanceUpdatesTypeUnmarshalJSON(decData.elems) IN
         /\ decOut' = b.out
         /\ decStatus' = [decStatus EXCEPT !.Kind = decData.status]
         /\ decErr' = IF b.err # DecNil THEN b.err
                      ELSE IF decData.fields = "misfit"
                           THEN JSONErr("cannot unmarshal into Go struct field")
                           ELSE DecNil
    /\ decPc' = "done"
    /\ UNCHANGED <<decFn, decData, decDests, decRaw, decI>>
    /\ UNCHANGED doVars

-----------------------------------------------------------------------------
(* unmarshalHeterogeneousJSONArray *)

\* The shapes a destination can have, and the JSON values of the array.
Shapes == {"string", "object"}

TupleValues == {[shape |-> sh, id |-> id] : sh \in Shapes, id \in {"p", "q"}}

\* A destination nothing was decoded into.
Unset == [shape |-> "unset", id |-> ""]

\* unmarshalHeterogeneousJSONArrayRaw returning nil for an array that is
\* too short.
unmarshalHeterogeneousJSONArrayRaw_ShortIsNil ==
    /\ decFn = "unmarshalHeterogeneousJSONArray"
    /\ decPc = "start"
    /\ LET u == UnmarshalRaw(decData) IN
         IF ~u.ok
         THEN /\ decErr' = JSONErr(u.msg)
              /\ decPc' = "done"
              /\ UNCHANGED <<decRaw, decI>>
         ELSE IF Len(u.raw) < Len(decDests)
         THEN /\ decErr' = DecNil
              /\ decPc' = "done"
              /\ decRaw' = u.raw
              /\ UNCHANGED decI
         ELSE /\ decRaw' = u.raw
              /\ decI' = 1
              /\ decPc' = "loop"
              /\ UNCHANGED decErr
    /\ UNCHANGED <<decFn, decData, decDests, decOut, decStatus>>
    /\ UNCHANGED doVars

\* The parse of data into raw messages and the length check.
unmarshalHeterogeneousJSONArrayRaw ==
    /\ decFn = "unmarshalHeterogeneousJSONArray"
    /\ decPc = "start"
    /\ LET u == UnmarshalRaw(decData) IN
         IF ~u.ok
         THEN /\ decErr' = JSONErr(u.msg)
              /\ decPc' = "done"
              /\ UNCHANGED <<decRaw, decI>>
         ELSE IF Len(u.raw) < Len(decDests)
         THEN /\ decErr' = FmtErr("JSON array is too short", "")
              /\ decPc' = "done"
              /\ decRaw' = u.raw
              /\ UNCHANGED decI
         ELSE /\ decRaw' = u.raw
              /\ decI' = 1
              /\ decPc' = "loop"
              /\ UNCHANGED decErr
    /\ UNCHANGED <<decFn, decData, decDests, decOut, decStatus>>
    /\ UNCHANGED doVars

\* unmarshalHeterogeneousJSONArrayLoop decoding the last raw message, not
\* the i-th, into the i-th destination.
unmarshalHeterogeneousJSONArrayLoop_WriteLast ==
    /\ decFn = "unmarshalHeterogeneousJSONArray"
    /\ decPc = "loop"
    /\ IF decI > Len(decDests)
       THEN /\ decErr' = DecNil
            /\ decPc' = "done"
            /\ UNCHANGED <<decOut, decI>>
       ELSE IF decRaw[decI].shape # decDests[decI]
       THEN /\ decErr' = JSONErr("cannot unmarshal into Go value")
            /\ decPc' = "done"
            /\ UNCHANGED <<decOut, decI>>
       ELSE /\ decOut' = [decOut EXCEPT ![decI] = decRaw[Len(decRaw)]]
            /\ decI' = decI + 1
            /\ UNCHANGED <<decErr, decPc>>
    /\ UNCHANGED <<decFn, decData, decDests, decRaw, decStatus>>
    /\ UNCHANGED doVars

\* One pass of the loop over v, or the return nil after it.
unmarshalHeterogeneousJSONArrayLoop ==
    /\ decFn = "unmarshalHeterogeneousJSONArray"
    /\ decPc = "loop"
    /\ IF decI > Len(decDests)
       THEN /\ decErr' = DecNil
            /\ decPc' = "done"
            /\ UNCHANGED <<decOut, decI>>
       ELSE IF decRaw[decI].shape # decDests[decI]
       THEN /\ decErr' = JSONErr("cannot unmarshal into Go value")
            /\ decPc' = "done"
            /\ UNCHANGED <<decOut, decI>>
       ELSE /\ decOut' = [decOut EXCEPT ![decI] = decRaw[decI]]
            /\ decI' = decI + 1
            /\ UNCHANGED <<decErr, decPc>>
    /\ UNCHANGED <<decFn, decData, decDests, decRaw, decStatus>>
    /\ UNCHANGED doVars

\* Do is not running.
DoIdle ==
    /\ pc = "idle"
    /\ client = [RPCHeaderCallback |-> FALSE, RPCStatusCallback |-> FALSE]
    /\ transport = [err |-> "", resp |-> NoResp, closeErr |-> FALSE]
    /\ v = "nil"
    /\ resp = NoResp
    /\ ret = Nil
    /\ err = Nil
    /\ bodyPos = 0
    /\ bodyCloses = 0
    /\ readAfterClose = FALSE
    /\ chunkVal = ""
    /\ sink = <<>>
    /\ sinkClosed = FALSE
    /\ destVal = ""
    /\ cancelled = FALSE
    /\ receiverReady = FALSE
    /\ transportCalls = 0
    /\ headerCb = <<>>
    /\ statusCb = <<>>

-----------------------------------------------------------------------------
(* The unmarshallers, each called once on an input *)

OperationElementsInputs ==
    {ArrayOf(e) : e \in SeqsUpTo(OperationElems, MaxArr)}
    \cup NotArrays \cup {OneOfEach(OperationKinds, "absent")}

BalanceUpdatesInputs ==
    {ArrayOf(e) : e \in SeqsUpTo(BalanceElems, MaxArr)}
    \cup NotArrays \cup {OneOfEach(BalanceKinds, "quoted")}

BlockHeaderMetadataInputs ==
    {Metadata(st, f, e) :
        st \in Range(TestChainStatuses) \cup {NewKind, NoKind, NonString},
        f \in {"fit", "misfit"},
        e \in SeqsUpTo(BalanceElems, MaxArr)}
    \cup {[json |-> "malformed", status |-> "", fields |-> "fit",
           elems |-> <<>>]}

TupleInputs ==
    {ArrayOf(e) : e \in SeqsUpTo(TupleValues, MaxTuple)} \cup NotArrays

InitDecode ==
    /\ DoIdle
    /\ decPc = "start"
    /\ decRaw = <<>>
    /\ decI = 0
    /\ decStatus = NoStatus
    /\ decErr = DecNil
    /\ \/ /\ decFn = "OperationElements"
          /\ decData \in OperationElementsInputs
          /\ decDests = <<>>
          /\ decOut = <<>>
       \/ /\ decFn = "BalanceUpdates"
          /\ decData \in BalanceUpdatesInputs
          /\ decDests = <<>>
          /\ decOut = <<>>
       \/ /\ decFn = "BlockHeaderMetadata"
          /\ decData \in BlockHeaderMetadataInputs
          /\ decDests = <<>>
          /\ decOut = <<>>
       \/ /\ decFn = "unmarshalHeterogeneousJSONArray"
          /\ decData \in TupleInputs
          /\ decDests \in SeqsUpTo(Shapes, MaxDest)
          /\ decOut = [i \in 1..Len(decDests) |-> Unset]

NextDecode ==
    \/ OperationElementsUnmarshalRaw
    \/ OperationElementsLoop
    \/ BalanceUpdatesUnmarshalRaw
    \/ BalanceUpdatesLoop
    \/ BlockHeaderMetadataProbe
    \/ BlockHeaderMetadataFull
    \/ unmarshalHeterogeneousJSONArrayRaw
    \/ unmarshalHeterogeneousJSONArrayLoop

SpecDecode == InitDecode /\ [][NextDecode]_vars

-----------------------------------------------------------------------------
(* RPCClient.Get, the variant that switches on the status class *)

\* json.NewDecoder(resp.Body).Decode(&v): into the struct v points to, or,
\* for a nil v, into an empty interface, which takes any JSON value.
GetDecode(body, dest) ==
    LET s == ScanValue(body, 0) IN
    IF dest = "nil" /\ s.kind = "array"
    THEN [kind |-> "ok", val |-> "", n |-> s.next - 1, msg |-> ""]
    ELSE DecodeNext(body, 0)

InitGet ==
    /\ pc = "get.call"
    /\ client = [RPCHeaderCallback |-> FALSE, RPCStatusCallback |-> FALSE]
    /\ transport \in Transports
    /\ v \in {"nil", "single"}
    /\ resp = NoResp
    /\ ret = Nil
    /\ err = Nil
    /\ bodyPos = 0
    /\ bodyCloses = 0
    /\ readAfterClose = FALSE
    /\ chunkVal = ""
    /\ sink = <<>>
    /\ sinkClosed = FALSE
    /\ destVal = ""
    /\ cancelled = FALSE
    /\ receiverReady = FALSE
    /\ transportCalls = 0
    /\ headerCb = <<>>
    /\ statusCb = <<>>
    /\ DecIdle

\* c.client.Do(req.WithContext(ctx)) and the return of its error.
GetTransport ==
    /\ pc = "get.call"
    /\ transportCalls' = transportCalls + 1
    /\ IF transport.err # ""
       THEN /\ ret' = PlainErr("transport", transport.err)
            /\ err' = PlainErr("transport", transport.err)
            /\ pc' = "get.done"
            /\ UNCHANGED resp
       ELSE /\ resp' = transport.resp
            /\ pc' = "get.switch"
            /\ UNCHANGED <<ret, err>>
    /\ UNCHANGED decVars
    /\ UNCHANGED <<client, transport, v, bodyPos, bodyCloses, readAfterClose,
                   chunkVal, sink, sinkClosed, destVal, cancelled,
                   receiverReady, headerCb, statusCb>>

\* The switch on resp.StatusCode / 100 and the return statement it runs.
GetSwitch ==
    /\ pc = "get.switch"
    /\ LET class == statusClass(resp)
           d == IF class = 5 THEN DecodeNext(resp.Body, 0)
                ELSE GetDecode(resp.Body, v)
       IN CASE class = 4 ->
                 /\ ret' = PlainErr("fmt", "bad request")
                 /\ UNCHANGED <<bodyPos, destVal, readAfterClose>>
            [] class = 5 ->
                 /\ ret' = IF d.kind = "ok" THEN Nil ELSE DecodeErr(d)
                 /\ bodyPos' = d.n
                 /\ readAfterClose' = (readAfterClose \/ bodyCloses > 0)
                 /\ UNCHANGED destVal
            [] class = 2 ->
                 /\ ret' = IF d.kind = "ok" THEN Nil ELSE DecodeErr(d)
                 /\ bodyPos' = d.n
                 /\ readAfterClose' = (readAfterClose \/ bodyCloses > 0)
                 /\ destVal' = IF d.kind = "ok" /\ v = "single"
                               THEN d.val ELSE destVal
            [] OTHER ->
                 /\ ret' = PlainErr("fmt", "unexpected response status")
                 /\ UNCHANGED <<bodyPos, destVal, readAfterClose>>
    /\ pc' = "get.close"
    /\ UNCHANGED decVars
    /\ UNCHANGED <<client, transport, v, resp, err, bodyCloses, chunkVal,
                   sink, sinkClosed, cancelled, receiverReady,
                   transportCalls, headerCb, statusCb>>

\* The deferred resp.Body.Close().  Get's result has no name, so the
\* assignment to the local err does not reach the caller: the caller gets
\* the value of the return statement.
GetClose ==
    /\ pc = "get.close"
    /\ bodyCloses' = bodyCloses + 1
    /\ err' = ret
    /\ pc' = "get.done"
    /\ UNCHANGED decVars
    /\ UNCHANGED <<client, transport, v, resp, ret, bodyPos, readAfterClose,
                   chunkVal, sink, sinkClosed, destVal, cancelled,
                   receiverReady, transportCalls, headerCb, statusCb>>

NextGet ==
    \/ GetTransport
    \/ GetSwitch
    \/ GetClose

SpecGet == InitGet /\ [][NextGet]_vars

-----------------------------------------------------------------------------
(* A streaming call on a well-formed body, with a consumer that keeps
   receiving *)

\* 2xx responses other than 204 whose body is a finite sequence of
\* well-formed JSON values.
StreamTransports ==
    {t \in Transports :
        /\ t.err = ""
        /\ t.resp.StatusCode \in {200, 201}
        /\ \A i \in 1..Len(t.resp.Body) : t.resp.Body[i] \in Objs}

InitStream ==
    /\ pc = "call"
    /\ client \in [RPCHeaderCallback : BOOLEAN, RPCStatusCallback : BOOLEAN]
    /\ transport \in StreamTransports
    /\ v = "chan"
    /\ resp = NoResp
    /\ ret = Nil
    /\ err = Nil
    /\ bodyPos = 0
    /\ bodyCloses = 0
    /\ readAfterClose = FALSE
    /\ chunkVal = ""
    /\ sink = <<>>
    /\ sinkClosed = FALSE
    /\ destVal = ""
    /\ cancelled = FALSE
    /\ receiverReady = FALSE
    /\ transportCalls = 0
    /\ headerCb = <<>>
    /\ statusCb = <<>>
    /\ DecIdle

\* The steps of the goroutine that runs Do.
DoStep ==
    \/ DoTransport
    \/ handleNormalResponseChan
    \/ handleNormalResponseDecode
    \/ handleNormalResponseBlock
    \/ handleNormalResponseSend
    \/ handleNormalResponseDone
    \/ DoClose
    \/ DoStatusCallback

NextStream ==
    \/ DoStep
    \/ Cancel
    \/ Receive

\* The goroutine running Do is scheduled whenever it can take a step, and
\* the consumer comes back to receive; the context may be cancelled or not.
FairSpec ==
    InitStream /\ [][NextStream]_vars /\ WF_vars(DoStep) /\ WF_vars(Receive)

-----------------------------------------------------------------------------
(* Vocabulary of the properties *)

\* Do has left its body: the return statement has been executed.
Returned == pc \in {"close", "status", "done"}

\* The call took the streaming branch of handleNormalResponse.
Streaming ==
    /\ resp # NoResp
    /\ statusClass(resp) = 2
    /\ resp.StatusCode # 204
    /\ v = "chan"

\* The call took the error branch of Do and ioutil.ReadAll succeeded.
ErrorBodyRead ==
    /\ Returned
    /\ resp # NoResp
    /\ statusClass(resp) # 2
    /\ \A i \in 1..Len(resp.Body) : resp.Body[i] # IOERR

JSONContent == Contains(resp.ContentType, mediaType)

\* The well-formed JSON objects at the head of a body.
LeadingObjs(body) ==
    LET k == CHOOSE n \in 0..Len(body) :
                 /\ \A i \in 1..n : body[i] \in Objs
                 /\ (n < Len(body) => body[n + 1] \notin Objs)
    IN SubSeq(body, 1, k)

IsPrefix(s, t) == Len(s) <= Len(t) /\ s = SubSeq(t, 1, Len(s))

\* The returned error carries the response's status code, status text and
\* the body as it was received.
CarriesResponse(e) ==
    /\ e.statusCode = transport.resp.StatusCode
    /\ e.status = StatusText(transport.resp.StatusCode)
    /\ e.body = transport.resp.Body

-----------------------------------------------------------------------------
(* Properties *)

\* C1: a streaming call on a 2xx body of k well-formed JSON values, with no
\* cancellation, has delivered exactly those k values to the channel, in body
\* order, when it returns, and returns nil (Do's result is nil unless closing
\* the body fails).
C1_StreamDeliversAllInOrder ==
    (/\ Returned
     /\ Streaming
     /\ ~cancelled
     /\ \A i \in 1..Len(resp.Body) : resp.Body[i] \in Objs)
    => /\ sink = resp.Body
       /\ ret = Nil
       /\ (pc = "done" /\ ~transport.closeErr => err = Nil)

C1_Witness ==
    /\ pc = "done"
    /\ Streaming
    /\ ~cancelled
    /\ resp.Body = <<"a", "b", "a">>
    /\ sink = <<"a", "b", "a">>
    /\ err = Nil

\* C2: in a streaming call, once the context is cancelled no element is
\* delivered to the channel any more, even to a receiver that is ready: the
\* select that finds ctx.Done() closed sends nothing and the call returns
\* ctx.Err().
C2_CancelStopsDelivery ==
    [][(cancelled /\ pc = "select")
         => /\ sink' = sink
            /\ (pc' # "select" => pc' = "close" /\ ret' = ctxErr)]_vars

\* C3: when the transport returned a response, the body is closed exactly
\* once by the time Do returns, whatever the exit path, is never closed twice
\* and is never read after it was closed.
C3_BodyClosedExactlyOnce ==
    /\ bodyCloses <= 1
    /\ ~readAfterClose
    /\ (pc \in {"status", "done"} /\ transport.err = "" => bodyCloses = 1)
    /\ (pc \in {"call", "dispatch", "decode", "select", "blocked", "woken"}
        => bodyCloses = 0)

C3_Witness ==
    /\ pc = "done"
    /\ Streaming
    /\ ret = ctxErr
    /\ bodyCloses = 1
    /\ bodyPos > 0

\* C4: when the j-th value of a streamed body fails to decode, the call
\* returns the decoder's error, the j-1 values before it have been delivered
\* once each, in order, and nothing at or after position j is delivered;
\* what has been delivered is never taken back.
C4_DecodeErrorKeepsDelivered ==
    (Returned /\ Streaming) =>
       LET lead == LeadingObjs(resp.Body) IN
       /\ IsPrefix(sink, lead)
       /\ (ret.type \in {"decode", "read"} => sink = lead)
       /\ (sink = lead /\ Len(lead) < Len(resp.Body)
              => ret.type \in {"decode", "read"} /\ (pc = "done" => err = ret))

C4_Witness ==
    /\ pc = "done"
    /\ Streaming
    /\ resp.Body = <<"a", "b", JUNK>>
    /\ sink = <<"a", "b">>
    /\ err.type = "decode"

\* C5: a 5xx response with a JSON content type whose body is a non-empty
\* JSON list of protocol-error records is returned as an rpcError holding
\* every record of the list, in body order, with the status code, the status
\* text and the body of the response.
C5_RPCErrorCarriesList ==
    \A s \in SeqsUpTo(Objs, MaxErrs) :
        (/\ ErrorBodyRead
         /\ statusClass(resp) = 5
         /\ JSONContent
         /\ Len(s) > 0
         /\ resp.Body = JSONList(s))
        => /\ ret.type = "rpcError"
           /\ ret.errors = [i \in 1..Len(s) |-> GenericError(s[i])]
           /\ CarriesResponse(ret)
           /\ (pc = "done" => err = ret)

C5_Witness ==
    /\ pc = "done"
    /\ resp.StatusCode = 503
    /\ JSONContent
    /\ resp.Body = <<LB, "b", CM, "a", RB>>
    /\ err.type = "rpcError"
    /\ err.errors = <<[kind |-> "temporary", id |-> "p.q"],
                      [kind |-> "permanent", id |-> "x.y.z"]>>

\* C6: a 5xx response with a JSON content type whose body is the empty list
\* [] is returned as the plainError "tezos: empty error response" with the
\* status and body of the response: not nil, not the decoding plainError and
\* not an rpcError without entries.
C6_EmptyListIsEmptyErrorResponse ==
    (/\ ErrorBodyRead
     /\ statusClass(resp) = 5
     /\ JSONContent
     /\ resp.Body = <<LB, RB>>)
    => /\ ret.type = "plainError"
       /\ ret.msg = <<"tezos: empty error response">>
       /\ CarriesResponse(ret)
       /\ (pc = "done" => err = ret)

C6_Witness ==
    /\ pc = "done"
    /\ resp.StatusCode = 500
    /\ JSONContent
    /\ resp.Body = <<LB, RB>>
    /\ err.type = "plainError"
    /\ err.msg = <<"tezos: empty error response">>

\* C7: a 5xx response with a JSON content type whose body, read in full, is
\* not a JSON list of protocol-error records is returned as the plainError
\* whose message is "tezos: error decoding RPC error: " followed by the
\* parser's own message, with the status and body of the response; it is
\* neither an rpcError nor the empty-error-response plainError.
C7_MalformedListIsDecodeError ==
    (/\ ErrorBodyRead
     /\ statusClass(resp) = 5
     /\ JSONContent
     /\ \A s \in SeqsUpTo(Objs, Len(resp.Body)) : resp.Body # JSONList(s))
    => /\ ret.type = "plainError"
       /\ Len(ret.msg) = 2
       /\ ret.msg[1] = "tezos: error decoding RPC error: "
       /\ ret.msg[2] \in {"unexpected end of JSON input", "invalid character",
                          "invalid character after top-level value",
                          "cannot unmarshal object", "cannot unmarshal array"}
       /\ CarriesResponse(ret)
       /\ (pc = "done" => err = ret)

C7_Witness ==
    /\ pc = "done"
    /\ resp.StatusCode = 500
    /\ JSONContent
    /\ resp.Body = <<LB, CM, "a", RB>>
    /\ err.type = "plainError"
    /\ err.msg = <<"tezos: error decoding RPC error: ", "invalid character">>

\* C8: a response whose status class is neither 2 nor 5 is returned as an
\* httpError with the status code, the status text and the body as read,
\* whatever the content type and whatever the body holds.
C8_OtherClassIsHTTPError ==
    (/\ ErrorBodyRead
     /\ statusClass(resp) # 5)
    => /\ ret.type = "httpError"
       /\ ret.errors = <<>>
       /\ ret.msg = <<>>
       /\ CarriesResponse(ret)
       /\ (pc = "done" => err = ret)

C8_Witness ==
    /\ pc = "done"
    /\ resp.StatusCode = 404
    /\ JSONContent
    /\ resp.Body = <<LB, "a", RB>>
    /\ err.type = "httpError"
    /\ err.body = <<LB, "a", RB>>

C10_TransportErrorUnmodified ==
    /\ transportCalls <= 1
    /\ (transport.err # "" /\ pc # "call")
       => /\ pc = "done"
          /\ err = ErrVal("transport", 0, "", NoBody, <<transport.err>>, <<>>)
          /\ destVal = ""
          /\ sink = <<>>
          /\ bodyPos = 0
          /\ bodyCloses = 0
          /\ headerCb = <<>>
          /\ statusCb = <<>>
          /\ transportCalls = 1

C10_Witness ==
    /\ pc = "done"
    /\ transport.err = "connection refused"
    /\ err.type = "transport"
    /\ err.msg = <<"connection refused">>
    /\ transportCalls = 1
    /\ v = "single"

\* The registries as the specification lists them: discriminator and the
\* concrete type registered for it.
RegisteredOperationElems ==
    {<<"endorsement", "EndorsementOperationElem">>,
     <<"transaction", "TransactionOperationElem">>,
     <<"ballot", "BallotOperationElem">>,
     <<"proposals", "ProposalOperationElem">>,
     <<"seed_nonce_revelation", "SeedNonceRevelationOperationElem">>,
     <<"double_endorsement_evidence", "DoubleEndorsementEvidenceOperationElem">>,
     <<"double_baking_evidence", "DoubleBakingEvidenceOperationElem">>,
     <<"activate_account", "ActivateAccountOperationElem">>,
     <<"reveal", "RevealOperationElem">>,
     <<"origination", "OriginationOperationElem">>,
     <<"delegation", "DelegationOperationElem">>}

RegisteredBalanceUpdates ==
    {<<"contract", "ContractBalanceUpdate">>,
     <<"freezer", "FreezerBalanceUpdate">>}

\* One of the two variant-array unmarshallers of operations.go is running.
VariantDecode == decFn \in {"OperationElements", "BalanceUpdates"}

Registered ==
    IF decFn = "OperationElements" THEN RegisteredOperationElems
    ELSE RegisteredBalanceUpdates

Fallback ==
    IF decFn = "OperationElements" THEN "GenericOperationElem"
    ELSE "GenericBalanceUpdate"

IsRegistered(kind) == \E p \in Registered : p[1] = kind

\* The element is a JSON object that has the generic shape of its family:
\* its kind, when present, is a string, and its change is not a bare number.
GenericShape(el) ==
    /\ el.json = "object"
    /\ el.kind # NonString
    /\ el.change # "number"

\* A well-formed element: of the generic shape, and with the fields of the
\* type registered for its kind when one is.
WellFormed(el) ==
    /\ GenericShape(el)
    /\ IsRegistered(el.kind) => el.fields = "fit"

\* The unmarshaller returned, having been given an array of well-formed
\* elements.
DecodedWellFormed ==
    /\ VariantDecode
    /\ decPc = "done"
    /\ decData.json = "array"
    /\ \A i \in 1..Len(decData.elems) : WellFormed(decData.elems[i])

\* C11: decoding an array of well-formed elements with registered
\* discriminators succeeds and yields a sequence of the same length whose
\* i-th element has the concrete type registered for the discriminator of
\* the i-th input element.
C11_RegisteredKindsGetTheirTypes ==
    (/\ DecodedWellFormed
     /\ \A i \in 1..Len(decData.elems) : IsRegistered(decData.elems[i].kind))
    => /\ decErr = DecNil
       /\ Len(decOut) = Len(decData.elems)
       /\ \A i \in 1..Len(decData.elems) :
            <<decData.elems[i].kind, decOut[i].goType>> \in Registered

C11_Witness ==
    /\ decFn = "OperationElements"
    /\ decPc = "done"
    /\ decData = OneOfEach(OperationKinds, "absent")
    /\ decErr = DecNil
    /\ Len(decOut) = 11
    /\ decOut[3].goType = "BallotOperationElem"
    /\ decOut[4].goType = "ProposalOperationElem"

\* C12: an element whose discriminator is a string no registry entry has
\* does not fail the decode: it is kept at its index as the generic fallback
\* value reporting that string, and the registered elements of the array get
\* their concrete types.
C12_UnknownKindFallsBack ==
    DecodedWellFormed
    => /\ decErr = DecNil
       /\ Len(decOut) = Len(decData.elems)
       /\ \A i \in 1..Len(decData.elems) :
            /\ decData.elems[i].kind = NewKind
               => decOut[i] = [goType |-> Fallback, Kind |-> NewKind]
            /\ IsRegistered(decData.elems[i].kind)
               => <<decData.elems[i].kind, decOut[i].goType>> \in Registered

C12_Witness ==
    /\ DecodedWellFormed
    /\ Len(decData.elems) = 2
    /\ decData.elems[1].kind = NewKind
    /\ IsRegistered(decData.elems[2].kind)
    /\ decErr = DecNil
    /\ decOut[1].goType = Fallback
    /\ decOut[2].goType # Fallback

\* The block metadata is an object whose test-chain status and balance
\* updates have discriminators that are strings or absent, and whose
\* registered variants have the fields of their types.
MetadataWellFormed ==
    /\ decFn = "BlockHeaderMetadata"
    /\ decData.json = "object"
    /\ decData.status # NonString
    /\ decData.status \in {"not_running", "forking", "running"}
       => decData.fields = "fit"
    /\ \A i \in 1..Len(decData.elems) :
         /\ decData.elems[i].json = "object"
         /\ decData.elems[i].kind # NonString
         /\ decData.elems[i].change # "number"
         /\ decData.elems[i].kind \in {"contract", "freezer"}
            => decData.elems[i].fields = "fit"

\* C13: the block-metadata decode does not fail because a test-chain status
\* or a balance-update kind is unregistered or absent: it succeeds, and the
\* unregistered status is kept in a generic fallback value.
C13_MetadataFallback ==
    (MetadataWellFormed /\ decPc = "done")
    => /\ decErr = DecNil
       /\ decStatus.goType # "nil"
       /\ decStatus.Kind = (IF decData.status = NoKind THEN ""
                            ELSE decData.status)
       /\ Len(decOut) = Len(decData.elems)

\* C14: an object without a discriminator field is kept at its index as the
\* generic fallback value with the empty discriminator, and the decode of
\* the array succeeds.
C14_AbsentKindFallsBack ==
    DecodedWellFormed
    => /\ decErr = DecNil
       /\ \A i \in 1..Len(decData.elems) :
            decData.elems[i].kind = NoKind
            => decOut[i] = [goType |-> Fallback, Kind |-> ""]

C14_Witness ==
    /\ DecodedWellFormed
    /\ decFn = "OperationElements"
    /\ Len(decData.elems) = 2
    /\ IsRegistered(decData.elems[1].kind)
    /\ decData.elems[2].kind = NoKind
    /\ decErr = DecNil
    /\ decOut[2] = [goType |-> "GenericOperationElem", Kind |-> ""]

\* The discriminators of a sequence of JSON elements, "" for an absent one.
KindsOf(elems) ==
    [i \in 1..Len(elems) |->
        IF elems[i].kind = NoKind THEN "" ELSE elems[i].kind]

\* C15: a successful variant decode yields exactly one value per input
\* element, none of them nil, in the order of the input and with repeated
\* elements kept; the empty array decodes to the empty sequence without
\* error.
C15_OneValuePerElement ==
    /\ (VariantDecode /\ decPc = "done" /\ decErr = DecNil)
       => /\ decData.json \in {"array", "null"}
          /\ Len(decOut) = Len(decData.elems)
          /\ \A i \in 1..Len(decOut) : decOut[i] # NilElem
          /\ [i \in 1..Len(decOut) |-> decOut[i].Kind] = KindsOf(decData.elems)
    /\ (VariantDecode /\ decPc = "done" /\ decData = ArrayOf(<<>>))
       => (decErr = DecNil /\ decOut = <<>>)

C15_Witness ==
    /\ VariantDecode
    /\ decPc = "done"
    /\ decErr = DecNil
    /\ Len(decData.elems) = 2
    /\ decData.elems[1] = decData.elems[2]
    /\ Len(decOut) = 2
    /\ decOut[1] = decOut[2]
    /\ decOut[1] # NilElem

\* The variant decode returned; the element at index i has a registered
\* discriminator and a field that does not fit the registered type, and the
\* elements before it are well-formed.
FullDecodeFailedAt(i) ==
    /\ VariantDecode
    /\ decPc = "done"
    /\ decData.json = "array"
    /\ i \in 1..Len(decData.elems)
    /\ GenericShape(decData.elems[i])
    /\ IsRegistered(decData.elems[i].kind)
    /\ decData.elems[i].fields = "misfit"
    /\ \A j \in 1..(i - 1) : WellFormed(decData.elems[j])

\* C16: when the full decode of the element at index i with registered
\* discriminator d fails, the decoder fails with an error that identifies
\* the index i and the discriminator d.
C16_ErrorNamesIndexAndKind ==
    \A i \in 1..MaxArr :
        FullDecodeFailedAt(i)
        => /\ decErr # DecNil
           /\ decErr.index = i
           /\ decErr.kind = decData.elems[i].kind

\* C16, amended: when the full decode of the element at index i fails, the
\* decoder fails with the error of the JSON decoding unchanged, which
\* carries neither the element index nor the discriminator.
C16_ErrorIsBareJSONError ==
    \A i \in 1..MaxArr :
        FullDecodeFailedAt(i)
        => /\ decErr.type = "json"
           /\ decErr.index = NoIndex
           /\ decErr.kind = ""
           /\ decI = i

C16_Witness ==
    /\ FullDecodeFailedAt(2)
    /\ decErr.type = "json"
    /\ decErr.index = NoIndex
    /\ decI = 2

\* The tuple decoder was given an array.
TupleDecode ==
    /\ decFn = "unmarshalHeterogeneousJSONArray"
    /\ decData.json = "array"

\* C17: given n destinations and an array of m >= n elements, each of the
\* first n of the shape of its destination, the tuple decoder succeeds and
\* destination i holds array element i; the elements from n on are ignored.
C17_TupleFillsDestinations ==
    (/\ TupleDecode
     /\ decPc = "done"
     /\ Len(decData.elems) >= Len(decDests)
     /\ \A i \in 1..Len(decDests) : decData.elems[i].shape = decDests[i])
    => /\ decErr = DecNil
       /\ Len(decOut) = Len(decDests)
       /\ \A i \in 1..Len(decDests) : decOut[i] = decData.elems[i]

C17_Witness ==
    /\ TupleDecode
    /\ decPc = "done"
    /\ decDests = <<"string", "object">>
    /\ Len(decData.elems) = 3
    /\ decData.elems[3] = [shape |-> "string", id |-> "q"]
    /\ decErr = DecNil
    /\ decOut = <<[shape |-> "string", id |-> "p"],
                  [shape |-> "object", id |-> "p"]>>

\* C18: when the array has fewer elements than there are destinations, the
\* tuple decoder fails with an error and no destination is ever written.
C18_ShortArrayFails ==
    (TupleDecode /\ Len(decData.elems) < Len(decDests))
    => /\ \A i \in 1..Len(decDests) : decOut[i] = Unset
       /\ decPc = "done" => decErr # DecNil

C18_Witness ==
    /\ TupleDecode
    /\ decPc = "done"
    /\ Len(decDests) = 2
    /\ Len(decData.elems) = 1
    /\ decData.elems[1].shape = decDests[1]
    /\ decErr.type = "fmt"
    /\ decOut = <<Unset, Unset>>

\* The call took the single-object branch of handleNormalResponse.
SingleValue ==
    /\ resp # NoResp
    /\ statusClass(resp) = 2
    /\ resp.StatusCode # 204
    /\ v = "single"

\* C19: a 2xx response other than 204 with an empty body and a single-value
\* destination makes Do return an error (the decoder's EOF) and leaves the
\* destination as it was; it is never a success.
C19_EmptyBodySingleIsError ==
    (Returned /\ SingleValue /\ resp.Body = <<>>)
    => /\ ret.type = "decode"
       /\ ret.msg = <<"EOF">>
       /\ destVal = ""
       /\ (pc = "done" => err = ret)

C19_Witness ==
    /\ pc = "done"
    /\ SingleValue
    /\ resp.StatusCode = 200
    /\ resp.Body = <<>>
    /\ err.type = "decode"
    /\ destVal = ""

\* C20: a 2xx body holding one well-formed JSON value followed by further
\* data makes a single-value call return a decode error; the call does not
\* succeed with the first value alone.
C20_TrailingDataIsError ==
    (/\ Returned
     /\ SingleValue
     /\ Len(resp.Body) >= 2
     /\ resp.Body[1] \in Objs)
    => /\ ret.type = "decode"
       /\ (pc = "done" => err # Nil)

\* C21: when reflect.Select is reached with an element to send, a receiver
\* ready and ctx.Done() closed, the outcome is determined by the state: the
\* send and the return of ctx.Err() are not both possible.
C21_SelectIsDeterministic ==
    (pc = "select" /\ receiverReady /\ cancelled)
    => ~(ENABLED handleNormalResponseSend /\ ENABLED handleNormalResponseDone)

\* C22: Do never closes the channel it was given: the channel is open in
\* every state of a call, whatever the exit path, and after Do returned.
C22_SinkNeverClosed ==
    /\ ~sinkClosed
    /\ \A i \in 1..Len(sink) : sink[i] \in Objs

\* A streaming call returned at the end of the body after a delivery.
C22_Witness ==
    /\ pc = "done"
    /\ Streaming
    /\ Len(sink) = 2
    /\ ret = Nil
    /\ ~sinkClosed

\* C23: in the Get that switches on the status class, every 5xx response
\* makes Get return a non-nil error; a 5xx body that is a well-formed error
\* record is never reported as success.
C23_Get5xxIsError ==
    (pc = "get.done" /\ resp # NoResp /\ statusClass(resp) = 5)
    => err # Nil

\* C24: when ctx.Done() is closed while the dispatcher is parked in the
\* select with no receiver ready, the select returns the cancellation case at
\* once without sending; from there the only step of the dispatcher is the
\* return of ctx.Err(), and after the return nothing is sent: the pending
\* element is never delivered.
C24_CancelWhileBlocked ==
    [][/\ (pc = "blocked" /\ ~cancelled /\ cancelled')
          => (pc' = "woken" /\ sink' = sink /\ chunkVal' = chunkVal)
       /\ pc = "woken"
          => /\ sink' = sink
             /\ pc' \in {"woken", "close"}
             /\ pc' = "close" => ret' = ctxErr
       /\ (Returned /\ ret = ctxErr)
          => /\ sink' = sink
             /\ ret' = ret
             /\ Returned'
             /\ pc' = "done" => err' = ctxErr]_vars

\* The close of ctx.Done() found the dispatcher parked with the second
\* element of the body and woke it.
C24_Witness ==
    /\ pc = "woken"
    /\ Streaming
    /\ cancelled
    /\ resp.Body = <<"a", "b">>
    /\ bodyPos = 2
    /\ chunkVal = "b"
    /\ sink = <<"a">>

\* C25: the probe of the balance-update decoder looks at the discriminator
\* only: an object with a string or absent kind passes it whatever the shape
\* of its other fields, so an element with an unregistered kind is kept as the
\* fallback value even when its change is not a quoted integer.
C25_ProbeIsShapeTolerant ==
    (/\ decFn = "BalanceUpdates"
     /\ decPc = "done"
     /\ decData.json = "array"
     /\ \A i \in 1..Len(decData.elems) :
          /\ decData.elems[i].json = "object"
          /\ decData.elems[i].kind \in {NewKind, NoKind})
    => /\ decErr = DecNil
       /\ \A i \in 1..Len(decData.elems) :
            decOut[i].goType = "GenericBalanceUpdate"

RECURSIVE DecodedUpTo(_, _, _)
\* The number of dec.Decode calls that returned an element, counted from
\* token pos of the body, among the first limit tokens.
DecodedUpTo(body, pos, limit) ==
    LET d == DecodeNext(body, pos) IN
    IF d.kind = "ok" /\ d.n <= limit
    THEN 1 + DecodedUpTo(body, d.n, limit)
    ELSE 0

\* C26: in a streaming call the number of elements decoded from the body
\* is the number delivered or one more, the one more being the element
\* held for the select; a call that returns ctx.Err() has decoded exactly
\* one element that it did not deliver.
C26_AtMostOneAhead ==
    Streaming
    => LET decoded == DecodedUpTo(resp.Body, 0, bodyPos) IN
       /\ Len(sink) <= decoded
       /\ decoded <= Len(sink) + 1
       /\ decoded = Len(sink) + 1
          <=> (pc \in {"select", "blocked", "woken"} \/ ret = ctxErr)
       /\ ret = ctxErr
          => /\ chunkVal = resp.Body[bodyPos]
             /\ sink = SubSeq(resp.Body, 1, bodyPos - 1)

C26_Witness ==
    /\ pc = "done"
    /\ Streaming
    /\ err = ctxErr
    /\ resp.Body = <<"a", "b", "a">>
    /\ bodyPos = 2
    /\ sink = <<"a">>
    /\ chunkVal = "b"

\* The error of a failed resp.Body.Close().
closeError == PlainErr("close", "close error")

\* C27: when the transport returned a response, a configured status
\* callback has run exactly once when Do returns, after the body was closed,
\* with the error Do returns (a promoted close error included); a configured
\* header callback ran exactly once, before anything was read from the body;
\* no callback runs more than once, none runs when it is not configured or
\* when the transport failed.
C27_CallbacksOnceInOrder ==
    /\ Len(statusCb) <= 1
    /\ Len(headerCb) <= 1
    /\ (resp = NoResp \/ ~client.RPCStatusCallback) => statusCb = <<>>
    /\ (resp = NoResp \/ ~client.RPCHeaderCallback) => headerCb = <<>>
    /\ (resp # NoResp /\ client.RPCHeaderCallback) => headerCb = <<0>>
    /\ (pc = "done" /\ resp # NoResp /\ client.RPCStatusCallback)
       => statusCb = <<[status |-> resp.StatusCode, err |-> err,
                        closes |-> 1]>>

\* Both callbacks ran in a call whose result is the error of Close.
C27_Witness ==
    /\ pc = "done"
    /\ client.RPCStatusCallback
    /\ client.RPCHeaderCallback
    /\ ret = Nil
    /\ err = closeError
    /\ bodyPos > 0
    /\ headerCb = <<0>>
    /\ Len(statusCb) = 1
    /\ statusCb[1].err = closeError

\* C28: the error of closing the body is Do's result only when the return
\* statement returned nil; an error that the return statement produced is
\* the result unchanged, also when closing fails.
C28_CloseErrorOnlyIfNil ==
    (pc = "done" /\ resp # NoResp)
    => /\ ret # Nil => err = ret
       /\ ret = Nil => err = (IF transport.closeErr THEN closeError ELSE Nil)

\* Closing failed in a call that had already produced an error.
C28_Witness ==
    /\ pc = "done"
    /\ resp # NoResp
    /\ transport.closeErr
    /\ ret.type = "rpcError"
    /\ err = ret

\* The response is a 204, or a 2xx given a nil destination.
NothingToRead ==
    /\ resp # NoResp
    /\ \/ resp.StatusCode = 204
       \/ statusClass(resp) = 2 /\ v = "nil"

\* C29: for a 204 response, or a 2xx response and a nil destination, Do
\* reads nothing from the body, writes no destination, sends nothing to a
\* channel, and returns nil unless closing the body fails.
C29_NoContentLeavesAllUntouched ==
    NothingToRead
    => /\ bodyPos = 0
       /\ ~readAfterClose
       /\ destVal = ""
       /\ sink = <<>>
       /\ ret = Nil
       /\ pc = "done"
          => err = (IF transport.closeErr THEN closeError ELSE Nil)

\* A 204 with a body, given a channel.
C29_Witness ==
    /\ pc = "done"
    /\ resp # NoResp
    /\ resp.StatusCode = 204
    /\ v = "chan"
    /\ resp.Body = <<"a", "b">>
    /\ sink = <<>>
    /\ bodyPos = 0
    /\ err = Nil

\* C30: a streaming call on a finite 2xx body of well-formed JSON values,
\* with a consumer that keeps receiving, eventually returns; when the context
\* was not cancelled it returns nil after delivering every element.  The
\* goroutine can always take a step except when it is parked in the select,
\* and it leaves the parked state only by a receive or by the cancellation.
C30_StreamReturns ==
    /\ <>(pc = "done")
    /\ []((pc = "done" /\ ~cancelled)
          => (sink = resp.Body /\ ret = Nil /\ bodyPos = Len(resp.Body)))
    /\ [](pc \notin {"blocked", "done"} => ENABLED DoStep)
    /\ [][pc = "blocked"
          => \/ pc' = "blocked"
             \/ pc' = "decode" /\ sink' = Append(sink, chunkVal)
             \/ pc' = "woken" /\ cancelled' /\ ~cancelled]_vars

\* The call returned after its goroutine was parked for the last element.
C30_Witness ==
    /\ pc = "done"
    /\ ~cancelled
    /\ ~receiverReady
    /\ resp.Body = <<"b", "a", "b">>
    /\ sink = <<"b", "a", "b">>
    /\ ret = Nil

====
